---- MODULE Spec2Model ----
(***************************************************************************)
(* State-machine model of the orbly cursor controllers:                    *)
(*   - the blob controller            (src/src/index.ts)                   *)
(*   - the dot/ring/trail controller  (src/unnamed/part_000)               *)
(*                                                                         *)
(* Numbers.  JavaScript numbers are modelled by scaled integers:           *)
(*   - coordinates are counted in units of 1/PX pixel, PX = 100*4^MaxTicks,*)
(*     so that MaxTicks applications of lerp with a factor in quarters to  *)
(*     whole pixels are exact;                                             *)
(*   - smoothing factors are exact fractions [num, den];                   *)
(*   - boost is counted in units of 1/BU, BU = 100 * 4^MaxTicks;           *)
(*   - opacity and blobiness are counted in hundredths.                    *)
(* Arithmetic has finite precision as in IEEE doubles: each product of     *)
(* lerp is rounded to the nearest unit, the unit standing for the last     *)
(* place of a double.  NaN and the infinities are not modelled.            *)
(***************************************************************************)
EXTENDS Integers, Sequences, FiniteSets, TLC

\* ---------------------------------------------------------------- bounds
\* Frame steps run per behaviour (the frame loop itself is unbounded).
MaxTicks == 3
\* Frame steps per behaviour of the lifecycle specification.
LifeTicks == 2
\* destroy() calls per behaviour.
MaxDestroys == 2

\* --------------------------------------------------------------- numbers
RECURSIVE Pow(_, _)
Pow(b, e) == IF e = 0 THEN 1 ELSE b * Pow(b, e - 1)

PX == 100 * Pow(4, MaxTicks)
BU == 100 * Pow(4, MaxTicks)

\* The wobble factors are counted in millionths.
WU == 1000 * 1000

Frac(n, d) == [num |-> n, den |-> d]
Abs(v) == IF v < 0 THEN 0 - v ELSE v
Max(a, b) == IF a >= b THEN a ELSE b
Min(a, b) == IF a <= b THEN a ELSE b

\* An optional value (an option left out, a nullable argument): <<>> or <<v>>.
None == <<>>
Some(v) == <<v>>
OrDefault(o, d) == IF o = None THEN d ELSE o[1]

Point(px, py) == [x |-> px, y |-> py]

\* p / d rounded to the nearest unit
Round(p, d) == (2 * p + d) \div (2 * d)

\* const lerp = (a, b, n) => (1 - n) * a + n * b, with n = num/den
lerpSwapped(a, b, n) ==
  Round((n.den - n.num) * b, n.den) + Round(n.num * a, n.den)
lerp(a, b, n) ==
  Round((n.den - n.num) * a, n.den) + Round(n.num * b, n.den)

\* const clamp = (n, min, max) => Math.max(min, Math.min(max, n))
clampNoUpper(n, lo, hi) == Max(lo, n)
clamp(n, lo, hi) == Max(lo, Min(hi, n))

\* ------------------------------------------------------ the host page
\* A small host document: <body> <a id=link><span id=icon/></a>
\*   <button id=btn/> <div id=card data-cursor data-cursor-magnet/> </body>
Elements == {"body", "link", "icon", "btn", "card"}
NoEl == "null"

Parent(el) ==
  CASE el = "link" -> "body"
    [] el = "icon" -> "link"
    [] el = "btn"  -> "body"
    [] el = "card" -> "body"
    [] OTHER       -> NoEl

TagName(el) ==
  CASE el = "link" -> "a"
    [] el = "icon" -> "span"
    [] el = "btn"  -> "button"
    [] el = "card" -> "div"
    [] OTHER       -> "body"

HasMagnetAttr(el) == el = "card"

\* Selectors: the two default interactive selectors and two custom ones.
SelBlob == "a, button, [role=button], input, textarea, select, summary, .is-interactive, [data-cursor], [data-cursor=hover]"
SelTrio == "a, button, [role=button], input, textarea, select, summary, .is-interactive"
SelButton == "button"
SelDataCursor == "[data-cursor]"
Selectors == {SelBlob, SelTrio, SelButton, SelDataCursor}

\* el.matches(selector)
Matches(el, sel) ==
  CASE sel = SelBlob       -> el \in {"link", "btn", "card"}
    [] sel = SelTrio       -> el \in {"link", "btn"}
    [] sel = SelButton     -> el = "btn"
    [] sel = SelDataCursor -> el = "card"
    [] OTHER               -> FALSE

\* el?.closest?.(selector): the nearest ancestor-or-self matching, or null
RECURSIVE Closest(_, _)
Closest(el, sel) ==
  IF el = NoEl THEN NoEl
  ELSE IF Matches(el, sel) THEN el
  ELSE Closest(Parent(el), sel)

\* el.getBoundingClientRect(), in pixels
Rect(el) ==
  CASE el = "link" -> [left |-> 4, top |-> 0, width |-> 4, height |-> 2]
    [] el = "icon" -> [left |-> 5, top |-> 0, width |-> 2, height |-> 2]
    [] el = "btn"  -> [left |-> 0, top |-> 4, width |-> 2, height |-> 2]
    [] el = "card" -> [left |-> 2, top |-> 2, width |-> 2, height |-> 4]
    [] OTHER       -> [left |-> 0, top |-> 0, width |-> 8, height |-> 8]

\* window.innerWidth, window.innerHeight, in pixels
Viewport == [innerWidth |-> 8, innerHeight |-> 8]

\* ------------------------------------------------------------- the state
VARIABLES
  \* the environment createCursor reads, and what it returned
  env,            \* [hasWindow, finePointer, prefersReduced]
  variant,        \* "blob" (index.ts) or "trio" (dot/ring/trail)
  api,            \* "live", or the stub returned: "ssr" / "coarse"
  reduceMotion,   \* const reduceMotion
  \* the page: listeners, owned nodes, styles
  listeners,      \* registered listeners, [on, type, fn]
  created,        \* nodes the controller created
  attached,       \* root is a child of its container
  classList,      \* root.classList
  transform,      \* the follower's style.transform
  opacity,        \* blob.style.opacity, in hundredths
  size,           \* blob.style.width / height, in pixels
  cursorScale,    \* root's --cursor-scale, in hundredths (None: not set)
  \* the frame scheduler
  pendingFrames,  \* handles of this controller's pending frame requests
  nextHandle,     \* the handle the next requestAnimationFrame returns
  raf,            \* let raf
  \* closure state
  mouse, pos, prev, trio, magnets, interactive, speeds, boost, blobiness,
  wob,
  \* the pointer, as the browser sees it
  under,          \* the element under the pointer (NoEl: outside the page)
  evq,            \* a mouseover still to be dispatched after a mouseout
  \* colour
  blobColor,      \* blob.style.color
  cursorColor,    \* root's --cursor-color (None: not set)
  mixBlendMode,   \* blob.style.mixBlendMode
  baseColorStr, baseColorRGBA, lastAutoColor, autoContrastOn, lastContrastAt,
  now,            \* performance.now(), in milliseconds
  \* observation
  thrown,         \* what the last API call threw (None: it returned)
  ticks,          \* frame steps run so far
  destroyCalls,   \* destroy() calls so far
  lastTarget,     \* the effective target the last frame step computed
  apiMagnets,     \* elements given to addMagnet and not since to removeMagnet
  sampledBg,      \* what the last contrast evaluation sampled (None: nothing)
  hoverOutFlip    \* alternates at every hoverOut() call

ctorVars == <<env, variant, api, reduceMotion>>
pageVars == <<listeners, created, attached>>
styleVars == <<transform, opacity, size, cursorScale>>
frameVars == <<pendingFrames, nextHandle, raf>>
motionVars == <<pos, prev, trio, boost, wob, lastTarget, ticks>>
setVars == <<interactive, speeds, blobiness>>
ptrVars == <<under, evq>>
colorVars == <<blobColor, cursorColor, mixBlendMode, baseColorStr,
               baseColorRGBA, lastAutoColor, autoContrastOn, lastContrastAt>>
vars == <<ctorVars, pageVars, styleVars, frameVars, motionVars, setVars,
          ptrVars, colorVars, now, classList, mouse, magnets, thrown,
          destroyCalls, apiMagnets, sampledBg, hoverOutFlip>>

\* ----------------------------------------------------------- listeners
L(on, type, fn) == [on |-> on, type |-> type, fn |-> fn]

\* The seven listeners createCursor registers in both controllers.
BaseListeners ==
  { L("window", "mousemove", "onMouseMove"),
    L("window", "mouseleave", "onLeave"),
    L("window", "mouseenter", "onEnter"),
    L("window", "mousedown", "onDown"),
    L("window", "mouseup", "onUp"),
    L("document", "mouseover", "onOver"),
    L("document", "mouseout", "onOut") }

\* The listener the blob controller adds under reduced motion.
SnapListener == L("window", "mousemove", "onMove")

Registered(fn) == \E l \in listeners : l.fn = fn

\* -------------------------------------------------------------- colours
RGBA(r, g, b, a) == [r |-> r, g |-> g, b |-> b, a |-> a]
White == RGBA(255, 255, 255, 100)

\* The colour strings given to the controller.
ColorInputs ==
  {"#ffffff", "#000000", "red", "rgb(252, 252, 252)", "bogus",
   "color(display-p3 1 0 0)"}

\* Whether the CSSOM accepts the string as a value of the color property.
ValidCssColor(str) == str # "bogus"

\* The text colour the page gives an element with no colour of its own.
InheritedColor == "rgb(0, 0, 0)"

\* getComputedStyle(tmp).color after tmp.style.color = input: an invalid
\* value is dropped and the inherited colour is computed; a colour outside
\* sRGB is serialised in its own colour() form.
ComputedColor(input) ==
  CASE input = "#ffffff" -> "rgb(255, 255, 255)"
    [] input = "#000000" -> "rgb(0, 0, 0)"
    [] input = "red"     -> "rgb(255, 0, 0)"
    [] input = "rgb(252, 252, 252)" -> "rgb(252, 252, 252)"
    [] input = "color(display-p3 1 0 0)" -> "color(display-p3 1 0 0)"
    [] OTHER -> InheritedColor

\* parseRGBA(input): /^rgba?\(([^)]+)\)$/i, then parseFloat of the parts
parseRGBA(str) ==
  CASE str = "rgb(255, 255, 255)" -> Some(RGBA(255, 255, 255, 100))
    [] str = "rgb(0, 0, 0)"       -> Some(RGBA(0, 0, 0, 100))
    [] str = "rgb(255, 0, 0)"     -> Some(RGBA(255, 0, 0, 100))
    [] str = "rgb(252, 252, 252)" -> Some(RGBA(252, 252, 252, 100))
    [] str = "rgb(128, 128, 128)" -> Some(RGBA(128, 128, 128, 100))
    [] str = "rgb(200, 200, 200)" -> Some(RGBA(200, 200, 200, 100))
    [] str = "rgba(0, 0, 0, 0)"   -> Some(RGBA(0, 0, 0, 0))
    [] OTHER                      -> None

\* resolveColorToRGBA(input)
resolveColorToRGBA(input) == parseRGBA(ComputedColor(input))

\* ------------------------------------------------------- construction
\* if (!hasWindow) return stub; if (!isFinePointer) return stub
ApiKindNoPointerGate(hw, fp) == IF ~hw THEN "ssr" ELSE "live"
ApiKind(hw, fp) ==
  IF ~hw THEN "ssr" ELSE IF ~fp THEN "coarse" ELSE "live"

\* respectReducedMotion && matchMedia('(prefers-reduced-motion: reduce)').matches
ReduceMotionOf(respect, prefers) == respect /\ prefers

\* The listeners registered when createCursor returns.
InitialListeners(v, rm) ==
  BaseListeners \cup (IF v = "blob" /\ rm THEN {SnapListener} ELSE {})

\* The default follow speeds.
DefaultSpeedBlob == Frac(11, 50)
DefaultSpeedTrio ==
  [dot |-> Some(Frac(1, 4)), ring |-> Some(Frac(3, 25)), trail |-> Some(Frac(2, 25))]

\* speeds = { blob: speed.blob ?? 0.22 }   /   const { speed = {...} } = opts
InitialSpeeds(v, speedOpt) ==
  IF v = "blob" THEN [blob |-> OrDefault(speedOpt, DefaultSpeedBlob)]
  ELSE OrDefault(speedOpt, DefaultSpeedTrio)

\* startX = window.innerWidth / 2, startY = window.innerHeight / 2
StartPoint(c) ==
  Point(OrDefault(c.startX, (Viewport.innerWidth \div 2) * PX),
        OrDefault(c.startY, (Viewport.innerHeight \div 2) * PX))

NullPoint == Point(0, 0)
NullTrio == [dot |-> NullPoint, ring |-> NullPoint, trail |-> NullPoint]

\* blob.style.transform as createCursor leaves it; the trio sets none
InitialTransform(v) ==
  IF v = "blob" THEN [kind |-> "initial"]
  ELSE [dot |-> [kind |-> "none"], ring |-> [kind |-> "none"],
        trail |-> [kind |-> "none"]]

\* The stub: nothing is created, registered or scheduled.
SetupStub(c) ==
  /\ listeners = {} /\ created = {} /\ attached = FALSE
  /\ classList = {}
  /\ transform = [kind |-> "none"]
  /\ opacity = 0 /\ size = 0 /\ cursorScale = None
  /\ pendingFrames = {} /\ raf = 0 /\ nextHandle = 1
  /\ mouse = NullPoint /\ pos = NullPoint /\ prev = NullPoint
  /\ trio = NullTrio
  /\ magnets = <<>>
  /\ interactive = ""
  /\ speeds = InitialSpeeds(c.variant, None)
  /\ boost = BU /\ blobiness = 0 /\ wob = Point(WU, WU)
  /\ blobColor = "" /\ cursorColor = None /\ mixBlendMode = ""
  /\ baseColorStr = "" /\ baseColorRGBA = White /\ lastAutoColor = None
  /\ autoContrastOn = FALSE /\ lastContrastAt = 0

\* createCursor past the two gates.
SetupLive(c) ==
  LET rm == ReduceMotionOf(OrDefault(c.respectReducedMotion, TRUE),
                           c.prefersReduced)
      start == StartPoint(c)
      blobv == c.variant = "blob"
  IN
  /\ listeners = InitialListeners(c.variant, rm)
  /\ created = IF blobv THEN {"root", "blob"}
                         ELSE {"root", "trail", "ring", "dot"}
  /\ attached = TRUE
  /\ classList = {"cc", "cc--hidden"}
  /\ transform = InitialTransform(c.variant)
  /\ opacity = IF blobv THEN Max(0, Min(100, OrDefault(c.opacity, 75)))
                         ELSE 0
  /\ size = IF blobv THEN OrDefault(c.size, 100) ELSE 0
  /\ cursorScale = IF blobv THEN Some(500) ELSE None
  /\ pendingFrames = IF rm THEN {} ELSE {1}
  /\ raf = IF rm THEN 0 ELSE 1
  /\ nextHandle = IF rm THEN 1 ELSE 2
  /\ mouse = start
  /\ pos = IF blobv THEN start ELSE NullPoint
  /\ prev = IF blobv THEN start ELSE NullPoint
  /\ trio = IF blobv THEN NullTrio
                      ELSE [dot |-> start, ring |-> start, trail |-> start]
  /\ magnets = <<>>
  /\ interactive =
       OrDefault(c.interactive, IF blobv THEN SelBlob ELSE SelTrio)
  /\ speeds = InitialSpeeds(c.variant, c.speed)
  /\ boost = BU
  /\ wob = Point(WU, WU)
  /\ blobiness = IF blobv THEN clamp(OrDefault(c.blobiness, 25), 0, 100)
                           ELSE 0
  /\ IF blobv
       THEN LET color == OrDefault(c.color, "#ffffff") IN
            /\ blobColor = IF ValidCssColor(color) THEN color ELSE ""
            /\ cursorColor = None
            /\ mixBlendMode = "difference"
            /\ baseColorStr = color
            /\ baseColorRGBA = OrDefault(resolveColorToRGBA(color), White)
            /\ lastAutoColor = None
            /\ autoContrastOn = OrDefault(c.autoContrast, TRUE)
            /\ lastContrastAt = 0
       ELSE /\ blobColor = "" /\ cursorColor = None /\ mixBlendMode = ""
            /\ baseColorStr = "" /\ baseColorRGBA = White
            /\ lastAutoColor = None
            /\ autoContrastOn = FALSE /\ lastContrastAt = 0

\* createCursor(opts) in environment c; c also carries the options.
Setup(c) ==
  /\ env = [hasWindow |-> c.hasWindow, finePointer |-> c.finePointer,
            prefersReduced |-> c.prefersReduced]
  /\ variant = c.variant
  /\ api = ApiKind(c.hasWindow, c.finePointer)
  /\ reduceMotion =
       (api = "live" /\ ReduceMotionOf(OrDefault(c.respectReducedMotion, TRUE),
                                       c.prefersReduced))
  /\ IF api = "live" THEN SetupLive(c) ELSE SetupStub(c)
  /\ under = c.under /\ evq = None
  /\ now = c.now
  /\ thrown = None /\ ticks = 0 /\ destroyCalls = 0
  /\ lastTarget = None
  /\ apiMagnets = {}
  /\ sampledBg = None
  /\ hoverOutFlip = FALSE

\* ------------------------------------------------------------ the API
Live == api = "live"
Blob == variant = "blob"

\* cancelAnimationFrame(handle)
CancelNothing(pending, handle) == pending
CancelAnimationFrame(pending, handle) == pending \ {handle}

\* The listeners destroy() removes.
DestroyRemoved == BaseListeners

\* An error thrown by method.
Error(method, message) == Some([method |-> method, message |-> message])

\* root.remove(): detaches root; a no-op on a detached node
RemoveChildOfContainer(isAttached) ==
  [attached |-> FALSE,
   thrown |-> IF isAttached THEN None ELSE Error("destroy", "NotFoundError")]
RemoveRoot(isAttached) == [attached |-> FALSE, thrown |-> None]

\* destroy()
Destroy ==
  /\ destroyCalls < MaxDestroys
  /\ destroyCalls' = destroyCalls + 1
  /\ IF Live
       THEN /\ pendingFrames' = CancelAnimationFrame(pendingFrames, raf)
            /\ listeners' = listeners \ DestroyRemoved
            /\ attached' = RemoveRoot(attached).attached
            /\ thrown' = RemoveRoot(attached).thrown
       ELSE /\ thrown' = None
            /\ UNCHANGED <<pendingFrames, listeners, attached>>
  /\ UNCHANGED <<ctorVars, hoverOutFlip, sampledBg, apiMagnets, created, styleVars, nextHandle, raf, motionVars,
                 setVars, ptrVars, colorVars, now, classList, mouse, magnets>>

\* setScale(scale): root.style.setProperty('--cursor-scale', String(scale))
SetScale(scale) ==
  /\ thrown' = None
  /\ cursorScale' = IF Live THEN Some(scale) ELSE cursorScale
  /\ UNCHANGED <<ctorVars, hoverOutFlip, sampledBg, apiMagnets, pageVars, transform, opacity, size, frameVars,
                 motionVars, setVars, ptrVars, colorVars, now, classList, mouse, magnets,
                 destroyCalls>>

\* setColor(color)
SetColorKeepsCache(color) ==
  /\ thrown' = None
  /\ IF Live /\ Blob
       THEN /\ baseColorStr' = color
            /\ baseColorRGBA' =
                 OrDefault(resolveColorToRGBA(color), baseColorRGBA)
            /\ cursorColor' = Some(color)
            /\ blobColor' = IF ValidCssColor(color) THEN color ELSE blobColor
            /\ UNCHANGED <<lastAutoColor, mixBlendMode, autoContrastOn,
                           lastContrastAt>>
       ELSE IF Live
       THEN /\ cursorColor' = Some(color)
            /\ UNCHANGED <<blobColor, mixBlendMode, baseColorStr,
                           baseColorRGBA, lastAutoColor, autoContrastOn,
                           lastContrastAt>>
       ELSE UNCHANGED colorVars
  /\ UNCHANGED <<ctorVars, hoverOutFlip, sampledBg, apiMagnets, pageVars, styleVars, frameVars, motionVars,
                 setVars, ptrVars, now, classList, mouse, magnets,
                 destroyCalls>>

SetColor(color) ==
  /\ thrown' = None
  /\ IF Live /\ Blob
       THEN /\ baseColorStr' = color
            /\ baseColorRGBA' =
                 OrDefault(resolveColorToRGBA(color), baseColorRGBA)
            /\ cursorColor' = Some(color)
            /\ blobColor' = IF ValidCssColor(color) THEN color ELSE blobColor
            /\ lastAutoColor' = None
            /\ UNCHANGED <<mixBlendMode, autoContrastOn, lastContrastAt>>
       ELSE IF Live
       THEN /\ cursorColor' = Some(color)
            /\ UNCHANGED <<blobColor, mixBlendMode, baseColorStr,
                           baseColorRGBA, lastAutoColor, autoContrastOn,
                           lastContrastAt>>
       ELSE UNCHANGED colorVars
  /\ UNCHANGED <<ctorVars, hoverOutFlip, sampledBg, apiMagnets, pageVars, styleVars, frameVars, motionVars,
                 setVars, ptrVars, now, classList, mouse, magnets,
                 destroyCalls>>

\* setAutoContrast(on)
SetAutoContrast(on) ==
  /\ Blob
  /\ thrown' = None
  /\ autoContrastOn' = IF Live THEN on ELSE autoContrastOn
  /\ UNCHANGED <<ctorVars, hoverOutFlip, sampledBg, apiMagnets, pageVars, styleVars, frameVars, motionVars,
                 setVars, ptrVars, blobColor, cursorColor, mixBlendMode,
                 baseColorStr, baseColorRGBA, lastAutoColor, lastContrastAt,
                 now, classList, mouse, magnets, destroyCalls>>

\* setSpeed(next): speeds = { blob: next.blob ?? speeds.blob }
SetSpeed(next) ==
  /\ Blob
  /\ thrown' = None
  /\ speeds' = IF Live THEN [blob |-> OrDefault(next, speeds.blob)] ELSE speeds
  /\ UNCHANGED <<ctorVars, hoverOutFlip, sampledBg, apiMagnets, pageVars, styleVars, frameVars, motionVars,
                 interactive, blobiness, ptrVars, colorVars, now, classList, mouse, magnets,
                 destroyCalls>>

\* setInteractive(selector)
SetInteractive(sel) ==
  /\ Blob
  /\ thrown' = None
  /\ interactive' = IF Live THEN sel ELSE interactive
  /\ UNCHANGED <<ctorVars, hoverOutFlip, sampledBg, apiMagnets, pageVars, styleVars, frameVars, motionVars,
                 speeds, blobiness, ptrVars, colorVars, now, classList, mouse, magnets,
                 destroyCalls>>

\* px | 0 for a px given in hundredths: truncation toward zero
ToInt(h) == IF h >= 0 THEN h \div 100 ELSE 0 - ((0 - h) \div 100)

\* setSize(px): v = Math.max(1, px|0); width = height = v px
SetSize(h) ==
  /\ Blob
  /\ thrown' = None
  /\ size' = IF Live THEN Max(1, ToInt(h)) ELSE size
  /\ UNCHANGED <<ctorVars, hoverOutFlip, sampledBg, apiMagnets, pageVars, transform, opacity, cursorScale,
                 frameVars, motionVars, setVars, ptrVars, colorVars, now, classList, mouse,
                 magnets, destroyCalls>>

\* setOpacity(alpha): blob.style.opacity = String(clamp(alpha, 0, 1))
SetOpacity(alpha) ==
  /\ Blob
  /\ thrown' = None
  /\ opacity' = IF Live THEN clamp(alpha, 0, 100) ELSE opacity
  /\ UNCHANGED <<ctorVars, hoverOutFlip, sampledBg, apiMagnets, pageVars, transform, size, cursorScale,
                 frameVars, motionVars, setVars, ptrVars, colorVars, now, classList, mouse,
                 magnets, destroyCalls>>

\* setBlobiness(amount): blobiness = clamp(amount, 0, 1)
SetBlobiness(amount) ==
  /\ Blob
  /\ thrown' = None
  /\ blobiness' = IF Live THEN clamp(amount, 0, 100) ELSE blobiness
  /\ UNCHANGED <<ctorVars, hoverOutFlip, sampledBg, apiMagnets, pageVars, styleVars, frameVars, motionVars,
                 interactive, speeds, ptrVars, colorVars, now, classList, mouse, magnets,
                 destroyCalls>>

\* Set<HTMLElement> in insertion order
SetHas(set, el) == \E i \in 1..Len(set) : set[i] = el
SetAdd(set, el) == IF SetHas(set, el) THEN set ELSE Append(set, el)
SetDelete(set, el) == SelectSeq(set, LAMBDA e : e # el)

\* el.tagName.toLowerCase() === 'a' || el.hasAttribute('data-cursor-magnet')
IsMagnetEl(el) == TagName(el) = "a" \/ HasMagnetAttr(el)

\* hoverIn(el?)
HoverIn(elOpt) ==
  /\ Blob
  /\ thrown' = None
  /\ IF Live
       THEN /\ classList' = classList \cup {"cc--hover"}
            /\ magnets' =
                 IF elOpt # None /\ ~SetHas(magnets, elOpt[1])
                    /\ IsMagnetEl(elOpt[1])
                 THEN Append(magnets, elOpt[1])
                 ELSE magnets
       ELSE UNCHANGED <<classList, magnets>>
  /\ UNCHANGED <<ctorVars, hoverOutFlip, sampledBg, apiMagnets, pageVars, styleVars, frameVars, motionVars,
                 setVars, ptrVars, colorVars, now, mouse, destroyCalls>>

\* hoverOut()
HoverOutKeepsMagnets ==
  /\ Blob
  /\ thrown' = None
  /\ IF Live
       THEN /\ classList' = classList \ {"cc--hover"}
            /\ magnets' = magnets
       ELSE UNCHANGED <<classList, magnets>>
  /\ hoverOutFlip' = ~hoverOutFlip
  /\ UNCHANGED <<ctorVars, sampledBg, apiMagnets, pageVars, styleVars, frameVars, motionVars,
                 setVars, ptrVars, colorVars, now, mouse, destroyCalls>>

HoverOut ==
  /\ Blob
  /\ thrown' = None
  /\ IF Live
       THEN /\ classList' = classList \ {"cc--hover"}
            /\ magnets' = <<>>
       ELSE UNCHANGED <<classList, magnets>>
  /\ hoverOutFlip' = ~hoverOutFlip
  /\ UNCHANGED <<ctorVars, sampledBg, apiMagnets, pageVars, styleVars, frameVars, motionVars,
                 setVars, ptrVars, colorVars, now, mouse, destroyCalls>>

\* addMagnet(el)
AddMagnet(el) ==
  /\ Blob
  /\ thrown' = None
  /\ magnets' = IF Live THEN SetAdd(magnets, el) ELSE magnets
  /\ apiMagnets' = IF Live THEN apiMagnets \cup {el} ELSE apiMagnets
  /\ UNCHANGED <<ctorVars, hoverOutFlip, sampledBg, pageVars, styleVars, frameVars, motionVars,
                 setVars, ptrVars, colorVars, now, classList, mouse, destroyCalls>>

\* removeMagnet(el)
RemoveMagnet(el) ==
  /\ Blob
  /\ thrown' = None
  /\ magnets' = IF Live /\ SetHas(magnets, el) THEN SetDelete(magnets, el)
                                               ELSE magnets
  /\ apiMagnets' = apiMagnets \ {el}
  /\ UNCHANGED <<ctorVars, hoverOutFlip, sampledBg, pageVars, styleVars, frameVars, motionVars,
                 setVars, ptrVars, colorVars, now, classList, mouse, destroyCalls>>

\* getElements(): the owned nodes, or the stub's error
GetElementsError(kind) ==
  CASE kind = "ssr"    -> Error("getElements", "SSR context")
    [] kind = "coarse" -> Error("getElements", "Disabled on coarse pointers")
    [] OTHER           -> None

GetElements ==
  /\ thrown' = GetElementsError(api)
  /\ UNCHANGED <<ctorVars, hoverOutFlip, sampledBg, apiMagnets, pageVars, styleVars, frameVars, motionVars,
                 setVars, ptrVars, colorVars, now, classList, mouse, magnets, destroyCalls>>

\* --------------------------------------------------------- the events
\* The browser dispatches an event to the listeners registered for it, in
\* the order they were registered; with none registered nothing runs.

\* mousemove at p: onMouseMove, then (reduced motion, blob) onMove
MouseMove(p) ==
  /\ evq = None
  /\ mouse' = IF Registered("onMouseMove") THEN p ELSE mouse
  /\ classList' = IF Registered("onMouseMove")
                   THEN classList \ {"cc--hidden"} ELSE classList
  /\ transform' = IF Registered("onMove")
                   THEN [kind |-> "snap", x |-> mouse'.x, y |-> mouse'.y]
                   ELSE transform
  /\ UNCHANGED <<ctorVars, hoverOutFlip, sampledBg, apiMagnets, pageVars, opacity, size, cursorScale, frameVars,
                 motionVars, setVars, ptrVars, colorVars, now, magnets,
                 thrown, destroyCalls>>

\* A window event whose handler adds or removes one class of root.
ClassEvent(fn, cls, add) ==
  /\ evq = None
  /\ classList' = IF ~Registered(fn) THEN classList
                   ELSE IF add THEN classList \cup {cls}
                   ELSE classList \ {cls}
  /\ UNCHANGED <<ctorVars, hoverOutFlip, sampledBg, apiMagnets, pageVars, styleVars, frameVars, motionVars,
                 setVars, ptrVars, colorVars, now, mouse, magnets, thrown,
                 destroyCalls>>

MouseLeave == ClassEvent("onLeave", "cc--hidden", TRUE)
MouseEnter == ClassEvent("onEnter", "cc--hidden", FALSE)
MouseDown == ClassEvent("onDown", "cc--down", TRUE)
MouseUp == ClassEvent("onUp", "cc--down", FALSE)

\* onOver's magnet test: the blob accepts anchors and [data-cursor-magnet],
\* the trio anchors only
OverAddsMagnet(el) ==
  IF Blob THEN IsMagnetEl(el) ELSE TagName(el) = "a"

onOverOnlySets(t) ==
  LET el == Closest(t, interactive) IN
  /\ classList' = IF el # NoEl THEN classList \cup {"cc--hover"}
                                ELSE classList
  /\ magnets' = IF el # NoEl /\ OverAddsMagnet(el) THEN SetAdd(magnets, el)
                                                     ELSE magnets

\* onOver(e) with e.target = t
onOver(t) ==
  LET el == Closest(t, interactive) IN
  /\ classList' = IF el # NoEl THEN classList \cup {"cc--hover"}
                                ELSE classList \ {"cc--hover"}
  /\ magnets' = IF el # NoEl /\ OverAddsMagnet(el) THEN SetAdd(magnets, el)
                                                     ELSE magnets

\* onOut(e) with e.target = t, e.relatedTarget = r
onOutAlwaysClears(t, r) ==
  /\ classList' = classList \ {"cc--hover"}
  /\ magnets' = IF t # NoEl /\ SetHas(magnets, t) THEN SetDelete(magnets, t)
                                                   ELSE magnets
onOut(t, r) ==
  LET related == Closest(r, interactive) IN
  /\ classList' = IF related = NoEl THEN classList \ {"cc--hover"}
                                     ELSE classList
  /\ magnets' = IF t # NoEl /\ SetHas(magnets, t) THEN SetDelete(magnets, t)
                                                   ELSE magnets

\* The pointer leaves the element it is over for r (NoEl: it leaves the
\* page): mouseout on the old element, a mouseover on r to follow.
MouseOut(r) ==
  /\ evq = None
  /\ under # NoEl
  /\ r # under
  /\ IF Registered("onOut") THEN onOut(under, r)
                            ELSE UNCHANGED <<classList, magnets>>
  /\ under' = r
  /\ evq' = IF r = NoEl THEN None ELSE Some(r)
  /\ UNCHANGED <<ctorVars, hoverOutFlip, sampledBg, apiMagnets, pageVars, styleVars, frameVars, motionVars,
                 setVars, colorVars, now, mouse, thrown, destroyCalls>>

\* The pointer comes into the page over t: a mouseover on t to follow.
PointerEnter(t) ==
  /\ evq = None
  /\ under = NoEl
  /\ under' = t
  /\ evq' = Some(t)
  /\ UNCHANGED <<ctorVars, hoverOutFlip, sampledBg, apiMagnets, pageVars, styleVars, frameVars, motionVars,
                 setVars, colorVars, now, classList, mouse, magnets, thrown,
                 destroyCalls>>

\* mouseover on the element the pointer has come over
MouseOver ==
  /\ evq # None
  /\ IF Registered("onOver") THEN onOver(evq[1])
                             ELSE UNCHANGED <<classList, magnets>>
  /\ evq' = None
  /\ UNCHANGED <<ctorVars, hoverOutFlip, sampledBg, apiMagnets, pageVars, styleVars, frameVars, motionVars,
                 setVars, under, colorVars, now, mouse, thrown, destroyCalls>>

\* ------------------------------------------------------ the frame step
\* r.left + r.width / 2, r.top + r.height / 2
Centre(el) ==
  LET r == Rect(el) IN
  Point(r.left * PX + (r.width * PX) \div 2,
        r.top * PX + (r.height * PX) \div 2)

\* let target = { ...mouse }; for (const el of magnets) { ...; break; }
EffectiveTargetLastMagnet(ms, mg) ==
  IF Len(mg) > 0 THEN Centre(mg[Len(mg)]) ELSE ms
EffectiveTarget(ms, mg) == IF Len(mg) > 0 THEN Centre(mg[1]) ELSE ms

RequestFrameTwice(h) ==
  /\ raf' = nextHandle + 1
  /\ pendingFrames' = (pendingFrames \ {h}) \cup {nextHandle, nextHandle + 1}
  /\ nextHandle' = nextHandle + 2

RequestFrameNone(h) ==
  /\ raf' = raf
  /\ pendingFrames' = pendingFrames \ {h}
  /\ nextHandle' = nextHandle

\* requestAnimationFrame(tick) once the callback with handle h has begun
RequestFrame(h) ==
  /\ raf' = nextHandle
  /\ pendingFrames' = (pendingFrames \ {h}) \cup {nextHandle}
  /\ nextHandle' = nextHandle + 1

boostLerp == Frac(1, 4)
wobLerp == Frac(3, 25)

\* computeTargetBoost(): 1, +0.15 on hover, +0.1 when pressed
computeTargetBoostNoStack(cl) ==
  IF "cc--hover" \in cl THEN BU + 15 * (BU \div 100)
  ELSE IF "cc--down" \in cl THEN BU + 10 * (BU \div 100) ELSE BU
computeTargetBoost(cl) ==
  BU + (IF "cc--hover" \in cl THEN 15 * (BU \div 100) ELSE 0)
     + (IF "cc--down" \in cl THEN 10 * (BU \div 100) ELSE 0)

\* boost = reduceMotion ? targetBoost : lerp(boost, targetBoost, boostLerp)
NextBoostOvershoot(b, cl, rm) ==
  lerp(b, computeTargetBoost(cl), Frac(5, 4))
NextBoost(b, cl, rm) ==
  IF rm THEN computeTargetBoost(cl)
  ELSE lerp(b, computeTargetBoost(cl), boostLerp)

\* pos.x = lerp(pos.x, target.x, speeds.blob), and pos.y likewise
FollowXOnly(p, target, n) == Point(lerp(p.x, target.x, n), p.y)
Follow(p, target, n) ==
  Point(lerp(p.x, target.x, n), lerp(p.y, target.y, n))

\* Math.hypot(vx, vy): exact along an axis, else rounded down to 1/100 px
HU == Pow(4, MaxTicks)
RECURSIVE SqrtBetween(_, _, _)
SqrtBetween(n, lo, hi) ==
  IF lo >= hi THEN lo
  ELSE LET mid == (lo + hi + 1) \div 2 IN
       IF mid * mid <= n THEN SqrtBetween(n, mid, hi)
                         ELSE SqrtBetween(n, lo, mid - 1)
Hypot(vx, vy) ==
  IF vy = 0 THEN Abs(vx)
  ELSE IF vx = 0 THEN Abs(vy)
  ELSE LET a == Abs(vx) \div HU
           b == Abs(vy) \div HU
       IN SqrtBetween(a * a + b * b, 0, a + b) * HU

\* Scale factors are counted in units of 1/SQ, so that speedLen / 25 is
\* the integer speedLen.
SQ == 25 * PX

\* squish = reduceMotion ? 0 : clamp(speedLen / 25, 0, blobiness)
SquishUnclamped(speedLen, blob, rm) == IF rm THEN 0 ELSE speedLen
Squish(speedLen, blob, rm) ==
  IF rm THEN 0 ELSE clamp(speedLen, 0, blob * (PX \div 4))

\* The wobble's sums of sines, sampled every 20 ms, in units of 1/10000:
\*   0.18 sin(2 pi 0.9 t) + 0.12 sin(2 pi 1.37 t + 1.2)
\*   0.16 sin(2 pi 0.63 t + 0.7) + 0.10 sin(2 pi 1.21 t + 2.1)
\*   sin(2 pi 0.33 t)
WobXTable ==
  <<1118, 1380, 1603, 1786, 1927, 2023, 2076, 2087, 2057, 1990, 1891,
  1762, 1610, 1440, 1258, 1068, 877, 690, 510, 342, 190, 55, -61, -156,
  -231, -287, -325, -347, -357, -357, -350, -340, -331, -327, -329, -341,
  -366, -403, -455, -521, -600>>
WobYTable ==
  <<1894, 1901, 1883, 1842, 1781, 1701, 1605, 1498, 1381, 1259, 1134,
  1010, 890, 775, 670, 575, 492, 423, 368, 328, 301, 288, 287, 297, 316,
  341, 370, 401, 431, 457, 476, 486, 484, 469, 438, 391, 326, 242, 141,
  21, -115>>
WobATable ==
  <<0, 415, 828, 1241, 1651, 2059, 2463, 2862, 3257, 3646, 4029, 4405,
  4773, 5134, 5485, 5827, 6159, 6480, 6790, 7089, 7375, 7649, 7909, 8156,
  8389, 8607, 8811, 9000, 9173, 9330, 9471, 9596, 9704, 9796, 9871, 9929,
  9970, 9993, 10000, 9989, 9961>>
WobIndex(t) == Min(t \div 20 + 1, Len(WobXTable))

\* targetWobX / targetWobY, with amp = blobiness * 0.5
TargetWob(blob, t) ==
  Point(WU + (blob * WobXTable[WobIndex(t)]) \div 2,
        WU + (blob * WobYTable[WobIndex(t)]) \div 2)
\* amp * 0.25 * Math.sin(t * 2 * Math.PI * 0.33), in millionths of a radian
AngleWob(blob, t) == (blob * WobATable[WobIndex(t)]) \div 8

\* ---------------------------------------------------- auto-contrast
\* (u <= 0.03928 ? u / 12.92 : ((u + 0.055) / 1.055) ^ 2.4) for u = v / 255,
\* in units of 1/100000, for the channel values the model's colours use
Linear(v) ==
  CASE v = 0   -> 0
    [] v = 128 -> 21586
    [] v = 200 -> 57758
    [] v = 252 -> 97345
    [] v = 255 -> 100000
    [] OTHER   -> 0

\* relLuminance({r, g, b}), in units of 1/100000
relLuminance(c) ==
  (2126 * Linear(c.r) + 7152 * Linear(c.g) + 722 * Linear(c.b)) \div 10000

\* contrastRatio(c1, c2) = (bright + 0.05) / (dark + 0.05), as a fraction
contrastRatio(c1, c2) ==
  LET l1 == relLuminance(c1)
      l2 == relLuminance(c2)
      bright == IF l1 >= l2 THEN l1 ELSE l2
      dark == IF l1 >= l2 THEN l2 ELSE l1
  IN Frac(bright + 5000, dark + 5000)

\* cr >= MIN_CR, MIN_CR = 2.6
EnoughContrastAlways(cr) == TRUE
EnoughContrast(cr) == 5 * cr.num >= 13 * cr.den

\* pickContrastBW(bg): L > 0.5 ? '#000000' : '#ffffff'
pickContrastBW(bg) ==
  IF relLuminance(bg) > 50000 THEN "#000000" ELSE "#ffffff"

\* isWhiteLike(c)
isWhiteLike(c) == c.r > 250 /\ c.g > 250 /\ c.b > 250

\* String(a) for an alpha given in hundredths
AlphaString(a) ==
  IF a = 0 THEN "0"
  ELSE IF a % 10 = 0 THEN "0." \o ToString(a \div 10)
  ELSE IF a < 10 THEN "0.0" \o ToString(a)
  ELSE "0." \o ToString(a)

\* rgbaToString({r, g, b, a})
rgbaToString(c) ==
  LET aa == Max(0, Min(100, c.a))
      rgb == ToString(c.r) \o ", " \o ToString(c.g) \o ", " \o ToString(c.b)
  IN IF aa = 100 THEN "rgb(" \o rgb \o ")"
     ELSE "rgba(" \o rgb \o ", " \o AlphaString(aa) \o ")"

\* What getBackgroundRGBAAt(x, y) may return: the first background with
\* a > 0 under the point, else the parsed background of body (transparent
\* by default), else null.
Backgrounds ==
  { None, Some(RGBA(255, 255, 255, 100)), Some(RGBA(0, 0, 0, 100)),
    Some(RGBA(128, 128, 128, 100)), Some(RGBA(200, 200, 200, 100)),
    Some(RGBA(0, 0, 0, 0)) }

\* The colour one contrast evaluation applies for background bg, and the
\* blend mode it leaves.
AutoColor(bg) ==
  IF isWhiteLike(baseColorRGBA) THEN pickContrastBW(bg)
  ELSE IF EnoughContrast(contrastRatio(baseColorRGBA, bg)) THEN baseColorStr
  ELSE rgbaToString(RGBA(Abs(bg.r - baseColorRGBA.r),
                         Abs(bg.g - baseColorRGBA.g),
                         Abs(bg.b - baseColorRGBA.b), 100))
AutoBlendNormal == "normal"
AutoBlend == IF isWhiteLike(baseColorRGBA) THEN "difference" ELSE "normal"

\* if (autoContrastOn && now - lastContrastAt > 80) { ... }
ContrastDueUnthrottled(t) == autoContrastOn
ContrastDue(t) == autoContrastOn /\ t - lastContrastAt > 80

\* The auto-contrast block of tick at clock t, sampling bgOpt.
AutoContrastNoProperty(t, bgOpt) ==
  IF ContrastDue(t)
  THEN /\ lastContrastAt' = t
       /\ IF bgOpt # None
            THEN LET out == AutoColor(bgOpt[1]) IN
                 /\ mixBlendMode' = AutoBlend
                 /\ IF Some(out) # lastAutoColor
                      THEN /\ blobColor' = IF ValidCssColor(out) THEN out
                                                                ELSE blobColor
                           /\ cursorColor' = cursorColor
                           /\ lastAutoColor' = Some(out)
                      ELSE UNCHANGED <<blobColor, cursorColor, lastAutoColor>>
            ELSE UNCHANGED <<blobColor, cursorColor, lastAutoColor,
                             mixBlendMode>>
       /\ UNCHANGED <<baseColorStr, baseColorRGBA, autoContrastOn>>
  ELSE UNCHANGED colorVars

AutoContrast(t, bgOpt) ==
  IF ContrastDue(t)
  THEN /\ lastContrastAt' = t
       /\ IF bgOpt # None
            THEN LET out == AutoColor(bgOpt[1]) IN
                 /\ mixBlendMode' = AutoBlend
                 /\ IF Some(out) # lastAutoColor
                      THEN /\ blobColor' = IF ValidCssColor(out) THEN out
                                                                ELSE blobColor
                           /\ cursorColor' = Some(out)
                           /\ lastAutoColor' = Some(out)
                      ELSE UNCHANGED <<blobColor, cursorColor, lastAutoColor>>
            ELSE UNCHANGED <<blobColor, cursorColor, lastAutoColor,
                             mixBlendMode>>
       /\ UNCHANGED <<baseColorStr, baseColorRGBA, autoContrastOn>>
  ELSE UNCHANGED colorVars

\* tick() of the blob controller, dt ms after the clock was last read
TickBlob(dt, bgOpt) ==
  /\ Blob
  /\ evq = None
  /\ ticks < MaxTicks
  /\ \E h \in pendingFrames :
       LET target == EffectiveTarget(mouse, magnets)
           npos == Follow(pos, target, speeds.blob)
           vx == npos.x - prev.x
           vy == npos.y - prev.y
           squish == Squish(Hypot(vx, vy), blobiness, reduceMotion)
           t == now + dt
           nwob == IF reduceMotion THEN wob
                   ELSE LET tw == TargetWob(blobiness, t) IN
                        Point(lerp(wob.x, tw.x, wobLerp),
                              lerp(wob.y, tw.y, wobLerp))
           nboost == NextBoost(boost, classList, reduceMotion)
       IN
       /\ now' = t
       /\ lastTarget' = Some(target)
       /\ pos' = npos
       /\ wob' = nwob
       /\ boost' = nboost
       /\ AutoContrast(t, bgOpt)
       /\ sampledBg' = IF ContrastDue(t) THEN bgOpt ELSE sampledBg
       /\ transform' =
            [kind |-> "frame", x |-> npos.x, y |-> npos.y,
             rotate |-> [atan2 |-> <<vy, vx>>,
                         plus |-> IF reduceMotion THEN 0
                                  ELSE AngleWob(blobiness, t)],
             scaleX |-> [squish |-> SQ + squish,
                         wob |-> IF reduceMotion THEN WU ELSE nwob.x,
                         boost |-> nboost],
             scaleY |-> [squish |-> SQ - squish,
                         wob |-> IF reduceMotion THEN WU ELSE nwob.y,
                         boost |-> nboost]]
       /\ prev' = npos
       /\ RequestFrame(h)
  /\ ticks' = ticks + 1
  /\ UNCHANGED <<ctorVars, hoverOutFlip, apiMagnets, pageVars, opacity, size, cursorScale, trio,
                 setVars, ptrVars, classList, mouse, magnets, thrown,
                 destroyCalls>>

TrioSpeedShared(part) == OrDefault(speeds.ring, Frac(3, 25))

\* speed.dot ?? 0.25, speed.ring ?? 0.12, speed.trail ?? 0.08
TrioSpeed(part) ==
  CASE part = "dot"  -> OrDefault(speeds.dot, Frac(1, 4))
    [] part = "ring" -> OrDefault(speeds.ring, Frac(3, 25))
    [] OTHER         -> OrDefault(speeds.trail, Frac(2, 25))

\* tick() of the dot/ring/trail controller
TickTrio ==
  /\ ~Blob
  /\ evq = None
  /\ ticks < MaxTicks
  /\ \E h \in pendingFrames :
       LET target == EffectiveTarget(mouse, magnets)
           ndot == Follow(trio.dot, mouse, TrioSpeed("dot"))
           nring == Follow(trio.ring, target, TrioSpeed("ring"))
           ntrail == Follow(trio.trail, mouse, TrioSpeed("trail"))
       IN
       /\ lastTarget' = Some(target)
       /\ trio' = [dot |-> ndot, ring |-> nring, trail |-> ntrail]
       /\ transform' =
            [dot |-> [kind |-> "frame", x |-> ndot.x, y |-> ndot.y],
             ring |-> [kind |-> "frame", x |-> nring.x, y |-> nring.y],
             trail |-> [kind |-> "frame", x |-> ntrail.x, y |-> ntrail.y]]
       /\ RequestFrame(h)
  /\ ticks' = ticks + 1
  /\ UNCHANGED <<ctorVars, hoverOutFlip, sampledBg, apiMagnets, pageVars, opacity, size, cursorScale, pos, prev,
                 boost, wob, setVars, ptrVars, colorVars, now, classList,
                 mouse, magnets, thrown, destroyCalls>>

\* ------------------------------------------------------ specifications
\* createCursor() with no options in a page with a fine pointer.
DefaultConfig ==
  [variant |-> "blob", hasWindow |-> TRUE, finePointer |-> TRUE,
   prefersReduced |-> FALSE, respectReducedMotion |-> None,
   startX |-> None, startY |-> None, speed |-> None, opacity |-> None,
   size |-> None, blobiness |-> None, color |-> None, autoContrast |-> None,
   interactive |-> None, under |-> NoEl, now |-> 0]

\* A quiet blob: no wobble amplitude, no auto-contrast.
QuietConfig ==
  [DefaultConfig EXCEPT !.blobiness = Some(0), !.autoContrast = Some(FALSE),
                        !.speed = Some(Frac(1, 1))]

\* Lifecycle: every environment and both controllers.
LifeConfigs ==
  { [QuietConfig EXCEPT !.variant = v, !.hasWindow = hw, !.finePointer = fp,
                        !.prefersReduced = pr, !.respectReducedMotion = rr,
                        !.speed = IF v = "blob" THEN Some(Frac(1, 1))
                                                ELSE None] :
      v \in {"blob", "trio"}, hw \in BOOLEAN, fp \in BOOLEAN,
      pr \in BOOLEAN, rr \in {None, Some(FALSE)} }

Init == \E c \in LifeConfigs : Setup(c)

Next ==
  \/ Destroy
  \/ SetScale(500)
  \/ SetColor("#ffffff")
  \/ SetSpeed(Some(Frac(1, 1)))
  \/ SetInteractive(SelBlob)
  \/ SetSize(100 * 100)
  \/ SetOpacity(75)
  \/ SetBlobiness(0 - 100)
  \/ SetAutoContrast(FALSE)
  \/ HoverIn(Some("link"))
  \/ HoverOut
  \/ AddMagnet("link")
  \/ RemoveMagnet("link")
  \/ GetElements
  \/ MouseMove(Point(0, 0))
  \/ MouseLeave
  \/ MouseEnter
  \/ MouseDown
  \/ MouseUp
  \/ MouseOut(NoEl)
  \/ PointerEnter("link")
  \/ MouseOver
  \/ ticks < LifeTicks /\ TickBlob(20, None)
  \/ ticks < LifeTicks /\ TickTrio

Spec == Init /\ [][Next]_vars

\* ------------------------------------------------------------ lifecycle
Gated == ~env.hasWindow \/ ~env.finePointer

\* C1 (as claimed): after destroy() has returned, none of the listeners the
\* controller registered is still registered and root is detached, in
\* every construction configuration.
C1_DestroyLeavesNothing ==
  (Live /\ destroyCalls > 0) => (listeners = {} /\ ~attached)

\* C2: a second destroy() does not throw and leaves the listeners, the
\* pending frame requests and the attachment of root as it found them,
\* which is as the first call left them.
C2_DestroyIdempotent ==
  [][(destroyCalls >= 1 /\ destroyCalls' = destroyCalls + 1)
       => /\ thrown' = None
          /\ listeners' = listeners
          /\ pendingFrames' = pendingFrames
          /\ attached' = attached
          /\ ~attached]_vars

C2_Witness == Live /\ destroyCalls = 2 /\ ticks > 0 /\ ~attached

\* C3: once destroy() has been called no frame step runs again and no
\* frame request of the controller is pending.
C3_NoFrameAfterDestroy ==
  [][/\ destroyCalls' > 0 => pendingFrames' = {}
     /\ destroyCalls > 0 => ticks' = ticks]_vars

C3_Witness ==
  Live /\ ~reduceMotion /\ destroyCalls > 0 /\ ticks > 0 /\ raf > 1
  /\ pendingFrames = {} /\ evq = None

\* C4: a gated construction registers, creates, attaches and schedules
\* nothing; on the controller it returns only getElements() throws, and no
\* call changes anything.
C4_GatedStub ==
  [][Gated =>
       /\ listeners' = {} /\ created' = {} /\ ~attached'
       /\ pendingFrames' = {} /\ raf' = 0
       /\ thrown' # None =>
            /\ thrown'[1].method = "getElements"
            /\ thrown'[1].message \in {"SSR context",
                                        "Disabled on coarse pointers"}
       /\ UNCHANGED <<classList, styleVars, nextHandle, pos, prev, trio,
                      boost, wob, lastTarget, ticks, setVars, colorVars,
                      mouse, magnets>>]_vars

C4_Witness == Gated /\ thrown # None /\ destroyCalls = 2 /\ under # NoEl

\* -------------------------------------------------------------- magnets
\* A live blob that animates, with two magnet elements on the page.
MagnetEls == {"link", "card"}

MagnetConfigs ==
  { [QuietConfig EXCEPT !.under = u] : u \in {NoEl, "link"} }

InitMagnet == \E c \in MagnetConfigs : Setup(c)

NextMagnet ==
  \/ \E el \in MagnetEls : AddMagnet(el)
  \/ \E el \in MagnetEls : RemoveMagnet(el)
  \/ \E el \in MagnetEls : HoverIn(Some(el))
  \/ HoverOut
  \/ \E p \in {Point(0, 0), Point(6 * PX, 1 * PX)} : MouseMove(p)
  \/ \E r \in MagnetEls \cup {NoEl} : MouseOut(r)
  \/ \E t \in MagnetEls : PointerEnter(t)
  \/ MouseOver
  \/ TickBlob(20, None)
  \/ Destroy

SpecMagnet == InitMagnet /\ [][NextMagnet]_vars

\* C5 (as claimed): from addMagnet(el) until removeMagnet(el), every frame
\* step computes the centre of el as its effective target, whatever
\* pointer events and API calls come between.
C5_AddedMagnetIsTarget ==
  [][\A el \in apiMagnets :
       ticks' = ticks + 1 => lastTarget' = Some(Centre(el))]_vars

\* C5 (amended): every frame step computes as its effective target the
\* centre of the element that has been longest in the magnet set, and the
\* raw pointer position when the set is empty; an element given to
\* addMagnet stays in the set until removeMagnet(el), hoverOut() or a
\* mouseout whose target is el takes it out.
C5_FirstMagnetIsTarget ==
  [][/\ ticks' = ticks + 1 =>
          lastTarget' = Some(IF magnets = <<>> THEN mouse
                                               ELSE Centre(Head(magnets)))
     /\ \A el \in apiMagnets :
          (SetHas(magnets, el) /\ ~SetHas(magnets', el)) =>
             \/ el \notin apiMagnets'
             \/ magnets' = <<>> /\ "cc--hover" \notin classList'
             \/ under = el /\ under' # el
     /\ \A el \in apiMagnets' \ apiMagnets : SetHas(magnets', el)]_vars

C5_Witness ==
  /\ ticks > 1
  /\ "link" \in apiMagnets
  /\ magnets = <<"card", "link">>
  /\ lastTarget = Some(Centre("card"))
  /\ mouse = Point(6 * PX, 1 * PX)

\* ---------------------------------------------------------------- boost
\* A live blob, animating or under reduced motion, with the pointer
\* pressing, hovering and leaving.
BoostConfigs ==
  { [QuietConfig EXCEPT !.prefersReduced = pr] : pr \in BOOLEAN }

InitBoost == \E c \in BoostConfigs : Setup(c)

NextBoostSpec ==
  \/ MouseDown
  \/ MouseUp
  \/ \E t \in {"link", "body"} : PointerEnter(t)
  \/ \E r \in {"link", "body", NoEl} : MouseOut(r)
  \/ MouseOver
  \/ \E e \in {None, Some("link")} : HoverIn(e)
  \/ HoverOut
  \/ TickBlob(20, None)

SpecBoost == InitBoost /\ [][NextBoostSpec]_vars

Hover == "cc--hover" \in classList
Pressed == "cc--down" \in classList

\* C6: in every reachable state of the blob controller the smoothed boost
\* is at least 1 and at most 1.25.
C6_BoostInRange ==
  Blob => (BU <= boost /\ 100 * boost <= 125 * BU)

C6_Witness ==
  /\ ticks = MaxTicks /\ Hover /\ Pressed
  /\ 100 * boost > 110 * BU

\* C7 (as claimed): after a frame step boost is exactly 1 with neither
\* flag set, 1.15 with hover only, 1.10 with pressed only, 1.25 with both.
C7_BoostEqualsTarget ==
  [][ticks' = ticks + 1 =>
       100 * boost' = (100 + (IF Hover THEN 15 ELSE 0)
                           + (IF Pressed THEN 10 ELSE 0)) * BU]_vars

\* C7 (amended): the target of boost is exactly 1 with neither flag set,
\* 1.15 with hover only, 1.10 with pressed only, 1.25 with both, and a
\* frame step moves boost a quarter of the way from its value to that
\* target.
C7_BoostMovesToTarget ==
  [][ticks' = ticks + 1 =>
       LET target == CASE Hover /\ Pressed  -> 125
                       [] Hover /\ ~Pressed -> 115
                       [] ~Hover /\ Pressed -> 110
                       [] OTHER             -> 100
       IN 400 * boost' = 300 * boost + target * BU]_vars

C7_Witness ==
  /\ ticks > 1 /\ ~Hover /\ ~Pressed
  /\ boost > BU
  /\ transform.kind = "frame" /\ transform.scaleX.boost = boost

\* ------------------------------------------------------------- settings
\* Values given for opacity and blobiness, in hundredths: below the range,
\* its two ends, inside it, above it.
SettingInputs == {0 - 100, 0, 40, 100, 250}

\* Values given for a follow speed: none, the ends of [0, 1], inside, above.
SpeedInputs == {None, Some(Frac(0, 1)), Some(Frac(1, 2)), Some(Frac(1, 1)),
                Some(Frac(2, 1))}

SettingConfigs ==
  { [DefaultConfig EXCEPT !.opacity = o, !.blobiness = b, !.speed = s,
                          !.autoContrast = Some(FALSE)] :
      o \in {None, Some(0 - 100), Some(40), Some(250)},
      b \in {None, Some(0 - 100), Some(40), Some(250)},
      s \in {None, Some(Frac(5, 4))} }
  \cup
  { [DefaultConfig EXCEPT !.variant = "trio", !.speed = s] :
      s \in {None, Some([dot |-> Some(Frac(5, 4)), ring |-> None,
                         trail |-> Some(Frac(1, 2))])} }

InitSetting == \E c \in SettingConfigs : Setup(c)

NextSetting ==
  \/ \E v \in SettingInputs : SetOpacity(v)
  \/ \E v \in SettingInputs : SetBlobiness(v)
  \/ \E s \in SpeedInputs : SetSpeed(s)
  \/ MouseMove(Point(0, 0))
  \/ TickBlob(20, None)
  \/ TickTrio

SpecSetting == InitSetting /\ [][NextSetting]_vars

\* The nearest value of [0, 1] to v, in hundredths.
Nearest(v) == IF v < 0 THEN 0 ELSE IF v > 100 THEN 100 ELSE v

\* C8: blobiness and the follower's opacity lie in [0, 1] in every
\* reachable state; the construction options, setOpacity(v) and
\* setBlobiness(v) turn v < 0 into 0, v > 1 into 1 and keep any other v.
C8_SettingsClamped ==
  Blob =>
    /\ 0 <= opacity /\ opacity <= 100
    /\ 0 <= blobiness /\ blobiness <= 100
    /\ \A v \in SettingInputs : clamp(v, 0, 100) = Nearest(v)
    /\ \E v \in SettingInputs \cup {75} : opacity = Nearest(v)
    /\ \E v \in SettingInputs \cup {25} : blobiness = Nearest(v)

C8_Witness ==
  /\ Blob /\ ticks > 0
  /\ opacity = 100 /\ blobiness = 40
  /\ transform.kind = "frame" /\ transform.scaleX.squish > SQ

\* C9 (as claimed): every follow speed the frame step uses lies in [0, 1],
\* whatever was given as the speed option or to setSpeed.
C9_SpeedInRange ==
  LET InRange(n) == 0 <= n.num /\ n.num <= n.den IN
  /\ (Blob /\ Live) => InRange(speeds.blob)
  /\ (~Blob /\ Live) => \A part \in {"dot", "ring", "trail"} :
                          InRange(TrioSpeed(part))

\* ----------------------------------------------------------------- lerp
\* A quiet blob following the pointer at a speed in quarters, started at a
\* whole pixel or a few units off one; the pointer rests on a whole pixel
\* or a unit off one.
LerpSpeeds == {Frac(0, 1), Frac(1, 4), Frac(1, 2), Frac(3, 4), Frac(1, 1)}
LerpStarts == {0, 4 * PX - 2, 4 * PX - 1, 4 * PX, 4 * PX + 2, 4 * PX + 3,
               8 * PX}
LerpTargets == {Point(4 * PX, 4 * PX), Point(4 * PX + 2, 0)}

LerpConfigs ==
  { [QuietConfig EXCEPT !.speed = Some(n), !.startX = Some(sx),
                        !.startY = Some(sy)] :
      n \in LerpSpeeds, sx \in LerpStarts, sy \in {0, 4 * PX + 2} }

InitLerp == \E c \in LerpConfigs : Setup(c)

NextLerp ==
  \/ \E p \in LerpTargets : MouseMove(p)
  \/ TickBlob(20, None)

SpecLerp == InitLerp /\ [][NextLerp]_vars

Sign(v) == IF v > 0 THEN 1 ELSE IF v < 0 THEN 0 - 1 ELSE 0

\* One coordinate a of the position, moved to a2 by a frame step with
\* target t and speed n, as the claim has it.
AxisExact(a, a2, t, n) ==
  /\ n.den * a2 = (n.den - n.num) * a + n.num * t
  /\ (0 < n.num /\ n.num < n.den) =>
       /\ a # t => Abs(a2 - t) < Abs(a - t)
       /\ Sign(a2 - t) \in {0, Sign(a - t)}
  /\ n.num = n.den => a2 = t
  /\ n.num = 0 => a2 = a

AxisRounded(a, a2, t, n) ==
  /\ Abs(n.den * a2 - ((n.den - n.num) * a + n.num * t)) <= n.den
  /\ (0 < n.num /\ n.num < n.den) =>
       /\ n.num * Abs(a - t) > n.den => Abs(a2 - t) < Abs(a - t)
       /\ Abs(a2 - t) <= Max(Abs(a - t), 1)
       /\ a <= t => a2 <= t + 1
       /\ a >= t => a2 >= t - 1
  /\ n.num = n.den => a2 = t
  /\ n.num = 0 => a2 = a

FollowStarts == {0, 4 * PX - 1, 100 * PX}
FollowMoves ==
  {Point(200 * PX, 100 * PX), Point(4 * PX + 2, 0), Point(0, 7 * PX)}

FollowConfigs ==
  { [QuietConfig EXCEPT !.speed = Some(n), !.startX = Some(sx),
                        !.startY = Some(sy)] :
      n \in LerpSpeeds, sx \in FollowStarts, sy \in {3, 100 * PX} }

InitFollow == \E c \in FollowConfigs : Setup(c)

NextFollow ==
  \/ \E p \in FollowMoves : MouseMove(p)
  \/ AddMagnet("link")
  \/ RemoveMagnet("link")
  \/ TickBlob(20, None)

SpecFollow == InitFollow /\ [][NextFollow]_vars

WholePixel(v) == v % PX = 0

\* One coordinate: from s, one step at speed n after a move to m gives
\* s + n * (m - s), to within the rounding of the arithmetic and exactly
\* for whole pixels.
AxisFollows(s, s2, m, n) ==
  /\ Abs(n.den * s2 - (n.den * s + n.num * (m - s))) <= n.den
  /\ (WholePixel(s) /\ WholePixel(m)) =>
       n.den * s2 = n.den * s + n.num * (m - s)

\* C11: the first frame step after construction at (sx, sy) and a pointer
\* move to (mx, my), with no magnet, puts the smoothed position at
\* (sx + n*(mx-sx), sy + n*(my-sy)); with sx = 100, mx = 200 and n = 0.5
\* the smoothed X is 150.
C11_FirstStepFollows ==
  [][(ticks = 0 /\ ticks' = 1 /\ magnets = <<>>) =>
       /\ AxisFollows(pos.x, pos'.x, mouse.x, speeds.blob)
       /\ AxisFollows(pos.y, pos'.y, mouse.y, speeds.blob)
       /\ (pos.x = 100 * PX /\ mouse.x = 200 * PX
           /\ speeds.blob = Frac(1, 2)) => pos'.x = 150 * PX]_vars

C11_Witness ==
  /\ ticks = 1 /\ magnets = <<>> /\ speeds.blob = Frac(1, 2)
  /\ mouse = Point(200 * PX, 100 * PX)
  /\ pos = Point(150 * PX, 100 * PX)
  /\ transform.kind = "frame" /\ transform.x = 150 * PX

\* --------------------------------------------------------------- squish
\* A blob with auto-contrast off that follows pointer moves near and far,
\* while its blobiness is set below, inside and above [0, 1].
SquishConfigs ==
  { [DefaultConfig EXCEPT !.autoContrast = Some(FALSE), !.speed = Some(n),
                          !.blobiness = b] :
      n \in {Frac(1, 4), Frac(1, 1)}, b \in {None, Some(0), Some(250)} }

InitSquish == \E c \in SquishConfigs : Setup(c)

NextSquish ==
  \/ \E p \in {Point(0, 0), Point(4 * PX, 5 * PX), Point(200 * PX, 100 * PX)} :
       MouseMove(p)
  \/ \E v \in {0 - 100, 40, 100} : SetBlobiness(v)
  \/ TickBlob(20, None)

SpecSquish == InitSquish /\ [][NextSquish]_vars

\* blobiness in the unit of the scale factors
SquishLimit == blobiness * (PX \div 4)

\* C12: in every frame step 0 <= squish <= blobiness, and before wobble
\* and boost are applied scaleX = 1 + squish and scaleY = 1 - squish, so
\* that scaleX + scaleY = 2.
C12_SquishBounded ==
  [][ticks' = ticks + 1 =>
       LET scaleX == transform'.scaleX.squish
           scaleY == transform'.scaleY.squish
           squish == scaleX - SQ
       IN /\ 0 <= squish /\ squish <= SquishLimit
          /\ scaleY = SQ - squish
          /\ scaleX + scaleY = 2 * SQ]_vars

\* a step fast enough for the limit to apply, after a slower one
C12_Witness ==
  /\ ticks > 1 /\ blobiness = 40
  /\ transform.kind = "frame"
  /\ transform.scaleX.squish = SQ + SquishLimit
  /\ transform.scaleY.squish = SQ - SquishLimit
  /\ pos # mouse

\* ------------------------------------------------------------- contrast
\* A still blob with auto-contrast, over every background the sampler can
\* return, with its colour given and changed to every colour string.
ContrastConfigs ==
  { [QuietConfig EXCEPT !.autoContrast = None, !.color = col, !.now = t] :
      col \in {None, Some("red"), Some("bogus"), Some("rgb(252, 252, 252)"),
               Some("color(display-p3 1 0 0)")},
      t \in {0, 90} }

InitContrast == \E c \in ContrastConfigs : Setup(c)

NextContrast ==
  \/ \E col \in ColorInputs : SetColor(col)
  \/ \E on \in BOOLEAN : SetAutoContrast(on)
  \/ \E dt \in {30, 60}, bg \in Backgrounds : TickBlob(dt, bg)

SpecContrast == InitContrast /\ [][NextContrast]_vars

BlackOrWhite == {"#000000", "#ffffff"}

\* C13: while the resolved base colour is white-like, a colour that a
\* contrast evaluation has applied to the follower (lastAutoColor, until
\* setColor forgets it) is exactly '#000000' or '#ffffff', it is the
\* follower's colour, and the blend mode left is 'difference'.
C13_WhiteLikeGivesBlackOrWhite ==
  (Blob /\ Live /\ isWhiteLike(baseColorRGBA) /\ lastAutoColor # None) =>
     /\ lastAutoColor[1] \in BlackOrWhite
     /\ blobColor = lastAutoColor[1]
     /\ cursorColor = lastAutoColor
     /\ mixBlendMode = "difference"

\* a white-like base that is not the default, after a colour change
C13_Witness ==
  /\ baseColorRGBA = RGBA(252, 252, 252, 100)
  /\ baseColorStr = "color(display-p3 1 0 0)"
  /\ lastAutoColor = Some("#000000")
  /\ ticks = MaxTicks

\* C14 (as claimed): for a white-like base colour a contrast evaluation
\* that finds a background recolours the follower to white when the
\* background's relative luminance is above 0.5 and to black otherwise.
C14_WhiteOnLightBackground ==
  [][(ticks' = ticks + 1 /\ lastContrastAt' # lastContrastAt
      /\ sampledBg' # None /\ isWhiteLike(baseColorRGBA)) =>
        blobColor' = (IF relLuminance(sampledBg'[1]) > 50000
                        THEN "#ffffff" ELSE "#000000")]_vars

\* A colour string that cannot be resolved: not a CSS colour, or one whose
\* computed form parseRGBA does not read.
Unresolvable(str) ==
  ~ValidCssColor(str) \/ parseRGBA(ComputedColor(str)) = None

\* C15 (as claimed): when the colour string given at construction or to
\* setColor cannot be resolved, the resolved base colour is opaque white
\* and nothing is thrown.
C15_UnresolvedIsWhite ==
  (Blob /\ Live /\ Unresolvable(baseColorStr)) =>
     (baseColorRGBA = White /\ thrown = None)

\* ------------------------------------------------------- reduced motion
\* C16 (as claimed): with the reduced-motion preference active at
\* construction no frame step is scheduled or run, and a pointer-move
\* event leaves the follower's transform at exactly the coordinates of
\* that event.
C16_ReducedMotionSnaps ==
  [][(Live /\ reduceMotion) =>
       /\ ticks' = ticks
       /\ pendingFrames' = {}
       /\ mouse' # mouse =>
            transform' = [kind |-> "snap", x |-> mouse'.x, y |-> mouse'.y]]_vars

\* -------------------------------------------------------------- pointer
\* Either controller, live, with the pointer entering the page, moving
\* between its elements and leaving, and frame steps between the events;
\* the blob's interactive selector may be replaced.
PointerConfigs ==
  { [QuietConfig EXCEPT !.variant = v, !.under = u,
                        !.speed = IF v = "blob" THEN Some(Frac(1, 1))
                                                ELSE None] :
      v \in {"blob", "trio"}, u \in {NoEl, "link"} }

InitPointer == \E c \in PointerConfigs : Setup(c)

NextPointer ==
  \/ \E t \in Elements : PointerEnter(t)
  \/ \E r \in Elements \cup {NoEl} : MouseOut(r)
  \/ MouseOver
  \/ \E sel \in {SelBlob, SelButton} : SetInteractive(sel)
  \/ TickBlob(20, None)
  \/ TickTrio

SpecPointer == InitPointer /\ [][NextPointer]_vars

\* el is e or an ancestor of e
RECURSIVE IsInside(_, _)
IsInside(e, el) ==
  IF e = NoEl THEN FALSE
  ELSE IF e = el THEN TRUE
  ELSE IsInside(Parent(e), el)

\* C17 (as claimed): once the pointer's events have been dispatched, every
\* element in magnetSet is the element under the pointer or an ancestor of
\* it: an element the pointer has left is not in the set.
C17_LeftElementNotMagnet ==
  (Live /\ evq = None) =>
     \A i \in 1..Len(magnets) : IsInside(under, magnets[i])

\* C18: a pointer-out clears the hover flag when its related target has no
\* ancestor-or-self matching the interactive selector and leaves the flag
\* as it is when it has one; a move between interactive elements that
\* starts with the flag set keeps it set through the pointer-out and the
\* pointer-over that follows.
C18_HoverKeptBetweenInteractive ==
  [][/\ (Registered("onOut") /\ under # NoEl /\ under' # under) =>
          IF Closest(under', interactive) = NoEl
          THEN "cc--hover" \notin classList'
          ELSE ("cc--hover" \in classList') = ("cc--hover" \in classList)
     /\ (Registered("onOver") /\ evq # None /\ evq' = None
         /\ Closest(evq[1], interactive) # NoEl) =>
          "cc--hover" \in classList']_vars

\* between the pointer-out from the anchor and the pointer-over on the
\* button next to it, with the flag still set
C18_Witness ==
  /\ Live /\ under = "btn" /\ evq = Some("btn")
  /\ "cc--hover" \in classList
  /\ Closest("btn", interactive) = "btn"

\* What the claim has a contrast evaluation write for a base colour that
\* is not white-like, over background bg: the requested string when the
\* contrast ratio is at least 2.6, else the opaque colour of the absolute
\* channel differences.
CustomColorFor(bg) ==
  LET l1 == relLuminance(baseColorRGBA)
      l2 == relLuminance(bg)
      bright == Max(l1, l2)
      dark == Min(l1, l2)
  IN IF 10 * (bright + 5000) >= 26 * (dark + 5000) THEN baseColorStr
     ELSE "rgb(" \o ToString(Abs(bg.r - baseColorRGBA.r)) \o ", "
                 \o ToString(Abs(bg.g - baseColorRGBA.g)) \o ", "
                 \o ToString(Abs(bg.b - baseColorRGBA.b)) \o ")"

\* A frame step that evaluates contrast, finds a background and has a
\* base colour that is not white-like.
CustomEvaluation ==
  /\ ticks' = ticks + 1
  /\ lastContrastAt' # lastContrastAt
  /\ sampledBg' # None
  /\ ~isWhiteLike(baseColorRGBA)

C20_ContrastThrottled ==
  [][(Blob /\ ticks' = ticks + 1) =>
       /\ lastContrastAt' # lastContrastAt =>
            /\ lastContrastAt' - lastContrastAt > 80
            /\ lastContrastAt' = now'
       /\ now' - lastContrastAt <= 80 => UNCHANGED <<colorVars, sampledBg>>
       /\ (autoContrastOn /\ now' - lastContrastAt > 80) =>
            lastContrastAt' = now']_vars

\* a step within 80 ms of an evaluation that found no background
C20_Witness ==
  /\ Blob /\ autoContrastOn /\ ticks > 1
  /\ lastContrastAt > 0 /\ sampledBg = None
  /\ now > lastContrastAt /\ now - lastContrastAt <= 80

\* A frame step that evaluates contrast and finds a background.
EvaluationWithBackground ==
  /\ ticks' = ticks + 1
  /\ lastContrastAt' # lastContrastAt
  /\ sampledBg' # None

\* C21: a setColor call empties the auto-contrast cache; the first
\* evaluation after it that finds a background writes the colour it
\* computes to the follower and to --cursor-color, whatever was applied
\* before the call; an evaluation that computes the cached colour writes
\* neither.
C21_SetColorInvalidatesCache ==
  [][/\ ticks' = ticks => lastAutoColor' \in {lastAutoColor, None}
     /\ (ticks' = ticks /\ <<baseColorStr, cursorColor, blobColor>>'
                            # <<baseColorStr, cursorColor, blobColor>>) =>
          lastAutoColor' = None
     /\ (EvaluationWithBackground /\ lastAutoColor = None) =>
          /\ lastAutoColor' # None
          /\ cursorColor' = lastAutoColor'
          /\ blobColor' = IF ValidCssColor(lastAutoColor'[1])
                            THEN lastAutoColor'[1] ELSE blobColor
     /\ (EvaluationWithBackground /\ lastAutoColor # None
         /\ lastAutoColor' = lastAutoColor) =>
          UNCHANGED <<blobColor, cursorColor>>]_vars

\* black set by setColor and applied again by the evaluation after it
C21_Witness ==
  /\ baseColorStr = "#000000" /\ lastAutoColor = Some("#000000")
  /\ blobColor = "#000000" /\ cursorColor = Some("#000000")
  /\ sampledBg = Some(RGBA(255, 255, 255, 100))
  /\ lastContrastAt = now

\* A frame step: the callback of a pending request runs to completion.
FrameStep == ticks' = ticks + 1

\* C22: a controller never has more than one frame request pending, the
\* pending request is the one whose handle raf holds, and a frame step
\* starts from exactly one pending request, which it consumes, so no
\* second frame step of the controller can be started while it runs.
C22_OneFramePending ==
  /\ [](Cardinality(pendingFrames) <= 1 /\ pendingFrames \subseteq {raf})
  /\ [][FrameStep =>
          /\ pendingFrames = {raf}
          /\ pendingFrames' = {raf'}
          /\ raf' # raf]_vars

C22_Witness ==
  /\ ticks = LifeTicks /\ destroyCalls = 0
  /\ Cardinality(pendingFrames) = 1 /\ raf \in pendingFrames

\* ------------------------------------------------- the frame loop lives
\* Both controllers in a page with a fine pointer, with and without the
\* reduced-motion preference and the option that overrides it.
LoopConfigs ==
  { [QuietConfig EXCEPT !.variant = v, !.prefersReduced = pr,
                        !.respectReducedMotion = rr,
                        !.speed = IF v = "blob" THEN Some(Frac(1, 1))
                                                ELSE None] :
      v \in {"blob", "trio"}, pr \in BOOLEAN, rr \in {None, Some(FALSE)} }

InitLoop == \E c \in LoopConfigs : Setup(c)

\* The browser runs the callback of a pending frame request.
RunFrame == TickBlob(20, None) \/ TickTrio

NextLoop ==
  \/ Destroy
  \/ SetOpacity(75)
  \/ MouseMove(Point(0, 0))
  \/ PointerEnter("link")
  \/ MouseOver
  \/ MouseOut(NoEl)
  \/ RunFrame

\* A fair frame scheduler: a callback that is pending again and again is
\* run, however many events are dispatched in between; a mouseover that
\* has been queued is dispatched.
SpecLoop ==
  InitLoop /\ [][NextLoop]_vars /\ SF_vars(RunFrame) /\ WF_vars(MouseOver)

Looping == Live /\ ~reduceMotion /\ destroyCalls = 0

\* C23: without reduced motion and before destroy(), every frame step
\* ends with exactly one new frame request pending, so under a fair frame
\* scheduler another frame step always follows (up to the MaxTicks steps
\* the model follows) unless destroy() is called first, whatever pointer
\* events and setter calls come in between.
C23_FrameLoopLives ==
  /\ [][(FrameStep /\ Looping) =>
          /\ pendingFrames' = {raf'}
          /\ raf' = nextHandle /\ nextHandle' = nextHandle + 1]_vars
  /\ \A n \in 0..(MaxTicks - 1) :
       (Looping /\ ticks = n) ~> (ticks = n + 1 \/ destroyCalls > 0)

C23_Witness ==
  /\ Looping /\ ticks = MaxTicks /\ Cardinality(pendingFrames) = 1
  /\ raf = MaxTicks + 1 /\ "cc--hover" \in classList

\* --------------------------------------------- dot, ring and trail follow
\* speed options of the dot/ring/trail controller: none, some, all
TrioSpeedOptions ==
  { None,
    Some([dot |-> Some(Frac(1, 2)), ring |-> None, trail |-> Some(Frac(1, 1))]),
    Some([dot |-> None, ring |-> Some(Frac(1, 4)), trail |-> None]) }

TrioConfigs ==
  { [QuietConfig EXCEPT !.variant = "trio", !.speed = sp] :
      sp \in TrioSpeedOptions }

InitTrio == \E c \in TrioConfigs : Setup(c)

NextTrio ==
  \/ \E t \in {"link", "btn"} : PointerEnter(t)
  \/ MouseOver
  \/ \E r \in {"link", NoEl} : MouseOut(r)
  \/ \E p \in {Point(0, 0), Point(6 * PX, 1 * PX)} : MouseMove(p)
  \/ TickTrio

SpecTrio == InitTrio /\ [][NextTrio]_vars

\* s2 is s moved toward m by the fraction n, on both axes
PointFollows(s, s2, m, n) ==
  AxisFollows(s.x, s2.x, m.x, n) /\ AxisFollows(s.y, s2.y, m.y, n)

\* C24: in the dot/ring/trail controller every frame step moves the ring
\* toward the centre of the first magnet element while the magnet set is
\* not empty (toward the pointer when it is), and the dot and the trail
\* toward the raw pointer position; each of the three moves from its own
\* previous position by its own speed (0.25, 0.12, 0.08 unless given).
C24_RingAloneIsMagnetised ==
  [][(FrameStep /\ ~Blob) =>
       /\ PointFollows(trio.dot, trio.dot', mouse,
                       OrDefault(speeds.dot, Frac(1, 4)))
       /\ PointFollows(trio.ring, trio.ring',
                       IF magnets # <<>> THEN Centre(Head(magnets)) ELSE mouse,
                       OrDefault(speeds.ring, Frac(3, 25)))
       /\ PointFollows(trio.trail, trio.trail', mouse,
                       OrDefault(speeds.trail, Frac(2, 25)))]_vars

\* a frame step with a magnet away from the pointer: the ring has left the
\* dot and both have moved
C24_Witness ==
  /\ ~Blob /\ ticks > 1 /\ magnets = <<"link">>
  /\ lastTarget = Some(Centre("link")) /\ mouse = Point(0, 0)
  /\ trio.ring # trio.dot /\ trio.dot # trio.trail
  /\ trio.ring.x > trio.dot.x

\* ------------------------------------------------- hover state and API
\* Both controllers, the pointer outside the page or over the anchor.
HoverConfigs ==
  { [QuietConfig EXCEPT !.variant = v, !.under = u,
                        !.speed = IF v = "blob" THEN Some(Frac(1, 1))
                                                ELSE None] :
      v \in {"blob", "trio"}, u \in {NoEl, "link"} }

InitHover == \E c \in HoverConfigs : Setup(c)

NextHover ==
  \/ \E e \in {None, Some("link")} : HoverIn(e)
  \/ HoverOut
  \/ AddMagnet("card")
  \/ \E sel \in {SelBlob, SelButton} : SetInteractive(sel)
  \/ \E t \in {"icon", "body"} : PointerEnter(t)
  \/ \E r \in {"btn", NoEl} : MouseOut(r)
  \/ MouseOver
  \/ MouseDown
  \/ MouseMove(Point(0, 0))
  \/ ticks < LifeTicks /\ TickBlob(20, None)
  \/ ticks < LifeTicks /\ TickTrio

SpecHover == InitHover /\ [][NextHover]_vars

\* a step that is a hoverOut() call on a controller that was built
HoverOutCall == Live /\ hoverOutFlip' # hoverOutFlip

\* C25: hoverOut() leaves the magnet set empty and the hover flag clear,
\* whoever filled them, and changes neither the pressed flag, the pointer
\* position, the smoothed position nor anything else of the motion; a
\* frame step that finds the magnet set empty targets the raw pointer
\* position.
C25_HoverOutClears ==
  [][/\ HoverOutCall =>
          /\ magnets' = <<>>
          /\ ~Hover'
          /\ Pressed' = Pressed
          /\ classList' = classList \ {"cc--hover"}
          /\ UNCHANGED <<mouse, pos, prev, boost, lastTarget, under, evq,
                         interactive, frameVars, styleVars>>
     /\ (FrameStep /\ magnets = <<>>) => lastTarget' = Some(mouse)]_vars

\* hoverOut() while pressed, after addMagnet and a pointer-over had filled
\* the set and raised the hover flag, then the frame steps
C25_Witness ==
  /\ Blob /\ Live /\ hoverOutFlip /\ magnets = <<>> /\ ~Hover /\ Pressed
  /\ "card" \in apiMagnets /\ mouse = Point(0, 0)
  /\ ticks = LifeTicks /\ lastTarget = Some(Point(0, 0))

\* a step in which the controller's onOver handles the queued mouseover
PointerOverHandled == Registered("onOver") /\ evq # None /\ evq' = None

\* C26: after every pointer-over event the controller handles, the hover
\* flag is set exactly when the event target or one of its ancestors
\* matches the current interactive selector, whatever the flag was; so a
\* hover flag raised by hoverIn() is gone after the next pointer-over on
\* a target with no such ancestor.
C26_OverSetsHoverFromTarget ==
  [][PointerOverHandled =>
       /\ Hover' = (Closest(evq[1], interactive) # NoEl)
       /\ Hover' = (\E el \in Elements :
                      IsInside(evq[1], el) /\ Matches(el, interactive))
       /\ \A c \in classList' \ classList : c = "cc--hover"
       /\ \A c \in classList \ classList' : c = "cc--hover"]_vars

\* the pointer has come over the icon inside the anchor while only buttons
\* are interactive: the flag is down although the anchor is a magnet
C26_Witness ==
  /\ Blob /\ Live /\ interactive = SelButton /\ under = "icon" /\ evq = None
  /\ ~Hover /\ magnets = <<"link">> /\ ~hoverOutFlip

====
